---- MODULE Spec2Model ----
(***************************************************************************)
(* flexcore: regions of nodes ticked on their own threads, exchanging      *)
(* values through Output/Input ports backed by std::sync::mpsc channels.   *)
(*                                                                         *)
(* The source tree holds two generations of the same API side by side:     *)
(*   src/lib.rs     Infrastructure, Region, Input, Output (Input::fetch    *)
(*                  does one try_recv per receiver)                        *)
(*   src/ports.rs   Input, Output (Input::fetch loops try_recv until Err)  *)
(*   src/region.rs  RegionBuilder (build rejects a region without nodes)   *)
(* Both are modelled; an Input is of one kind or the other for its life.   *)
(*                                                                         *)
(* Specifications:                                                         *)
(*   Spec           construction, run, the region threads, drop            *)
(*   PortSpec       the port operations, called by one thread              *)
(*   TimeSpec       one running region, with the durations of its cycles   *)
(*   RaceSpec       a firing and a fetching thread, send by send and       *)
(*                  try_recv by try_recv                                   *)
(*   FairDrainSpec  the fetching thread, scheduled fairly, beside a thread *)
(*                  that fires without end                                 *)
(***************************************************************************)
EXTENDS Integers, Sequences, FiniteSets, TLC

\* ------------------------------------------------------------------ bounds
MaxConn == 2        \* connect calls in one run
MaxFires == 3       \* fire calls made by the set-up thread in one run

\* ------------------------------------------------------------------ ports
\* The ports of the nodes of examples/multi_region.rs.
Outputs == {"out_measurements", "out_velocity"}
Inputs == {"in_measurements", "in_velocity"}

VARIABLES
    tx,         \* Output.tx: per Output, its senders in connection order
    rx,         \* Input.rx: per Input, its receivers in connection order
    chan,       \* the mpsc channels: queue, owner of each end, receiver alive
    kind,       \* per Input: "lib" (src/lib.rs) or "ports" (src/ports.rs)
    inAlive,    \* per Input: not yet dropped
    fired,      \* history: fired[v] is the Output of the v-th fire call
    owed,       \* history: per Input, values sent to it since its last fetch
    last        \* history: the last port operation and what it returned

portVars == <<tx, rx, chan, kind, inAlive, fired, owed, last>>

VARIABLES
    counter,     \* SensorInterface.counter
    regions,     \* Infrastructure.regions / InfrastructureBuilder.regions
    infra,       \* where the infrastructure value is: "held", "in_rb", "dropped", "run"
    reg,         \* a Region under construction through Region::new / add_node
    rb,          \* a RegionBuilder under construction through with_node
    err,         \* the Err of the last RegionBuilder::build, or "none"
    mpc,         \* position of the constructing thread
    pending,     \* run: the regions not yet spawned
    taken,       \* history: how many regions run took
    failed,      \* history: how many spawns failed
    outcome,     \* what run gave its caller: "none", "handle" or "panic"
    threads,     \* RunningInfrastructure.threads: the region threads, in spawn order
    exit_signal, \* RunningInfrastructure.exit_signal
    joinIdx,     \* drop: the thread being joined
    unwinding    \* drop runs while a panic of run unwinds

infraVars == <<counter, regions, infra, reg, rb, err, mpc, pending, taken, failed,
               outcome, threads, exit_signal, joinIdx, unwinding>>

\* Time, in units of 100 ms.
VARIABLES
    period,      \* Region.tick: the Duration the regions of the run are made with
    work         \* the time the node calls of one cycle take in this run

timeVars == <<period, work>>

\* The port operations of two running threads, statement by statement.
VARIABLES
    fx,          \* the fetch the fetching thread is in: Input, receiver index, ret
    px,          \* the fire the firing thread is in: Output, sender index, value
    outAlive,    \* per Output: not yet dropped
    sent,        \* history: per channel, the tagged values sent on it
    got          \* history: per channel, the tagged values received from it

stepVars == <<fx, px, outAlive, sent, got>>

vars == <<portVars, infraVars, timeVars, stepVars>>

NoOp == [op |-> "none", port |-> "none", val |-> 0, ret |-> <<>>, panic |-> FALSE]

\* No fetch / no fire in progress.  mark and fed are history: the number of
\* values sent on each transport when the fetch began, and whether anything
\* was queued for the Input then or has been since.
NoFetch == [on |-> FALSE, port |-> "none", k |-> 0, ret |-> <<>>, mark |-> <<>>, fed |-> FALSE]
NoFire == [on |-> FALSE, port |-> "none", k |-> 0, val |-> 0, panicked |-> FALSE]

\* std::sync::mpsc::channel(): an empty queue with both ends alive.
channel(o, i) == [q |-> <<>>, snd |-> o, rcv |-> i, rxAlive |-> TRUE]

\* Sender::send: Ok and enqueued while the Receiver lives, Err once it is dropped.
send(ch, c, t) ==
    IF ch[c].rxAlive
    THEN [ok |-> TRUE, chan |-> [ch EXCEPT ![c].q = Append(@, t)]]
    ELSE [ok |-> FALSE, chan |-> ch]

\* Receiver::try_recv: Ok(head) when a value is queued, Err otherwise
\* (Empty, or Disconnected when the Sender is gone): never blocks.
try_recv(ch, c) ==
    IF ch[c].q # <<>>
    THEN [ok |-> TRUE, data |-> Head(ch[c].q), chan |-> [ch EXCEPT ![c].q = Tail(@)]]
    ELSE [ok |-> FALSE, data |-> 0, chan |-> ch]

\* Output::fire: for tx in &mut self.tx { tx.send(t.clone()).expect(..) }
\* The first failed send panics: the loop is left with the later senders unserved.
RECURSIVE fire_loop(_, _, _)
fire_loop(txs, ch, t) ==
    IF txs = <<>> THEN [panic |-> FALSE, chan |-> ch]
    ELSE LET r == send(ch, Head(txs), t) IN
         IF r.ok THEN fire_loop(Tail(txs), r.chan, t)
         ELSE [panic |-> TRUE, chan |-> r.chan]

\* A fire that serves its first sender only.
fire_first_only(txs, ch, t) ==
    fire_loop(IF txs = <<>> THEN <<>> ELSE <<Head(txs)>>, ch, t)

fire(txs, ch, t) == fire_loop(txs, ch, t)

\* src/ports.rs Input::fetch, inner loop 'read_empty on one receiver.
RECURSIVE read_empty(_, _, _)
read_empty(ch, c, ret) ==
    LET r == try_recv(ch, c) IN
    IF r.ok THEN read_empty(r.chan, c, Append(ret, r.data))
    ELSE [ret |-> ret, chan |-> ch]

\* src/ports.rs Input::fetch: every receiver, in order, read until Err.
RECURSIVE fetch(_, _, _)
fetch(rxs, ch, ret) ==
    IF rxs = <<>> THEN [ret |-> ret, chan |-> ch]
    ELSE LET r == read_empty(ch, Head(rxs), ret) IN
         fetch(Tail(rxs), r.chan, r.ret)

\* src/lib.rs Input::fetch: every receiver, in order, one try_recv each.
RECURSIVE lib_fetch(_, _, _)
lib_fetch(rxs, ch, ret) ==
    IF rxs = <<>> THEN [ret |-> ret, chan |-> ch]
    ELSE LET r == try_recv(ch, Head(rxs)) IN
         lib_fetch(Tail(rxs), r.chan, IF r.ok THEN Append(ret, r.data) ELSE ret)

\* The fetch of Input i, of whichever kind it is.
Input_fetch(i, ch) ==
    IF kind[i] = "ports" THEN fetch(rx[i], ch, <<>>) ELSE lib_fetch(rx[i], ch, <<>>)

\* Dropping an Input drops its receivers: queued values are gone, senders see Err.
drop_rx(ch, i) ==
    [c \in DOMAIN ch |->
        IF ch[c].rcv = i THEN [ch[c] EXCEPT !.rxAlive = FALSE, !.q = <<>>] ELSE ch[c]]

\* ------------------------------------------------- port operations (set-up)
\* A push that keeps the new end only.
push_replacing(v, x) == <<x>>

\* Vec::push: self.tx.push(tx), input.rx.push(rx)
push(v, x) == Append(v, x)

\* Output::connect: a fresh channel, sender pushed on the Output, receiver on
\* the Input.  Output<T>/Input<T> of the two generations do not mix: all the
\* Inputs of one Output are of one kind.
connect(o, i) ==
    /\ Len(chan) < MaxConn
    /\ inAlive[i]
    /\ \A c \in DOMAIN chan : chan[c].snd = o => kind[chan[c].rcv] = kind[i]
    /\ LET c == Len(chan) + 1 IN
        /\ chan' = Append(chan, channel(o, i))
        /\ tx' = [tx EXCEPT ![o] = push(@, c)]
        /\ rx' = [rx EXCEPT ![i] = push(@, c)]
    /\ last' = [NoOp EXCEPT !.op = "connect", !.port = o]
    /\ UNCHANGED <<kind, timeVars, stepVars, inAlive, fired, owed, infraVars>>

\* What a fire on Output o owes to Input i: one copy per transport from o to i,
\* when every peer of o is alive.
Owes(o, i, v) ==
    IF \A k \in DOMAIN tx[o] : chan[tx[o][k]].rxAlive
    THEN [k \in 1..Cardinality({k \in DOMAIN tx[o] : chan[tx[o][k]].rcv = i}) |-> v]
    ELSE <<>>

\* The set-up thread fires the next fresh value on Output o.
Fire(o) ==
    /\ Len(fired) < MaxFires
    /\ LET v == Len(fired) + 1
           r == fire(tx[o], chan, v) IN
        /\ chan' = r.chan
        /\ fired' = Append(fired, o)
        /\ owed' = [i \in Inputs |-> owed[i] \o Owes(o, i, v)]
        /\ last' = [NoOp EXCEPT !.op = "fire", !.port = o, !.val = v, !.panic = r.panic]
    /\ UNCHANGED <<tx, rx, kind, timeVars, stepVars, inAlive, infraVars>>

\* The set-up thread fetches Input i.
Fetch(i) ==
    /\ inAlive[i]
    /\ LET r == Input_fetch(i, chan) IN
        /\ chan' = r.chan
        /\ last' = [NoOp EXCEPT !.op = "fetch", !.port = i, !.ret = r.ret]
    /\ owed' = [owed EXCEPT ![i] = <<>>]
    /\ UNCHANGED <<tx, rx, kind, timeVars, stepVars, inAlive, fired, infraVars>>

\* The set-up thread drops Input i (the peer of its transports is destroyed).
DropInput(i) ==
    /\ inAlive[i]
    /\ inAlive' = [inAlive EXCEPT ![i] = FALSE]
    /\ chan' = drop_rx(chan, i)
    /\ owed' = [owed EXCEPT ![i] = <<>>]
    /\ last' = [NoOp EXCEPT !.op = "drop", !.port = i]
    /\ UNCHANGED <<tx, rx, kind, timeVars, stepVars, fired, infraVars>>

\* ------------------------------------------------------------------ nodes
\* The nodes of examples/multi_region.rs (and of the tests of src/lib.rs), by name.
Nodes == {"counter", "processing", "output"}

\* The Input ports a node owns: dropped with the node.
InputsOf(n) ==
    IF n = "processing" THEN {"in_measurements"}
    ELSE IF n = "output" THEN {"in_velocity"}
    ELSE {}


\* ------------------------------------------------------------------ bounds
MaxRegions == 2     \* regions added to one infrastructure
MaxCycles == 2      \* cycles one region thread starts before shutdown
MaxWork == 4        \* longest node work of one cycle

\* Duration::from_secs(1) of the test single_region.
TestPeriod == 10

\* The tick periods of the sources: 0.1 s and 0.3 s in examples/multi_region.rs.
Periods == {1, 3, TestPeriod}
Works == 0..MaxWork

NoRegion == [open |-> FALSE, nodes |-> <<>>]

\* The nodes held by a sequence of regions.
RECURSIVE NodesIn(_)
NodesIn(rs) == IF rs = <<>> THEN <<>> ELSE Head(rs) \o NodesIn(Tail(rs))

Range(f) == {f[x] : x \in DOMAIN f}

\* Dropping nodes drops their Inputs, and with them the receivers.  (Their
\* Outputs go too: a dropped sender only turns try_recv's Err(Empty) into
\* Err(Disconnected), and both fetch treat every Err alike.)
drop_nodes(ch, ns) ==
    [c \in DOMAIN ch |->
        IF \E n \in Range(ns) : ch[c].rcv \in InputsOf(n)
        THEN [ch[c] EXCEPT !.rxAlive = FALSE, !.q = <<>>] ELSE ch[c]]

alive_after(ns) ==
    [i \in Inputs |-> inAlive[i] /\ ~(\E n \in Range(ns) : i \in InputsOf(n))]

\* Processing::process_input: let velocity = d.data[0] * d.data[1] * d.data[2],
\* on the SensorData [v, v + 1.0, v + 2.0] that SensorInterface::tick fires.
velocity(v) == v * (v + 1) * (v + 2)

\* for d in data { self.out_velocity.fire(velocity) }: left at the first panic.
RECURSIVE fire_each(_, _, _)
fire_each(data, txs, ch) ==
    IF data = <<>> THEN [panic |-> FALSE, chan |-> ch]
    ELSE LET r == fire(txs, ch, velocity(Head(data))) IN
         IF r.panic THEN r ELSE fire_each(Tail(data), txs, r.chan)

\* A tick that fires nothing.
tick_silent(n, ch) == [panic |-> FALSE, chan |-> ch]

\* Node::tick: SensorInterface fires its counter; the default is a no-op.
tick(n, ch) ==
    IF n = "counter" THEN fire(tx["out_measurements"], ch, counter)
    ELSE [panic |-> FALSE, chan |-> ch]

\* Node::process_input of the three nodes.
process_input(n, ch) ==
    IF n = "processing"
    THEN LET f == Input_fetch("in_measurements", ch) IN
         fire_each(f.ret, tx["out_velocity"], f.chan)
    ELSE IF n = "output"
    THEN [panic |-> FALSE, chan |-> Input_fetch("in_velocity", ch).chan]
    ELSE [panic |-> FALSE, chan |-> ch]

\* ------------------------------------------------------------ construction
\* The nodes the constructing thread still owns (not yet moved into a region).
Free(n) ==
    /\ n \notin Range(NodesIn(regions))
    /\ n \notin Range(reg.nodes)
    /\ n \notin Range(rb.nodes)

\* src/lib.rs Region::new
Region_new ==
    /\ mpc = "setup"
    /\ ~reg.open
    /\ reg' = [open |-> TRUE, nodes |-> <<>>]
    /\ UNCHANGED <<portVars, timeVars, stepVars, counter, regions, infra, rb, err, mpc, pending, taken,
                   failed, outcome, threads, exit_signal, joinIdx, unwinding>>

\* src/lib.rs Region::add_node
add_node(n) ==
    /\ mpc = "setup"
    /\ reg.open
    /\ Free(n)
    /\ reg' = [reg EXCEPT !.nodes = Append(@, n)]
    /\ UNCHANGED <<portVars, timeVars, stepVars, counter, regions, infra, rb, err, mpc, pending, taken,
                   failed, outcome, threads, exit_signal, joinIdx, unwinding>>

\* src/lib.rs Infrastructure::add_region
add_region ==
    /\ mpc = "setup"
    /\ infra = "held"
    /\ reg.open
    /\ Len(regions) < MaxRegions
    /\ regions' = Append(regions, reg.nodes)
    /\ reg' = NoRegion
    /\ UNCHANGED <<portVars, timeVars, stepVars, counter, infra, rb, err, mpc, pending, taken,
                   failed, outcome, threads, exit_signal, joinIdx, unwinding>>

\* InfrastructureBuilder::with_region: the builder moves into a RegionBuilder
\* that has no nodes yet.
with_region ==
    /\ mpc = "setup"
    /\ infra = "held"
    /\ Len(regions) < MaxRegions
    /\ rb' = [open |-> TRUE, nodes |-> <<>>]
    /\ infra' = "in_rb"
    /\ UNCHANGED <<portVars, timeVars, stepVars, counter, regions, reg, err, mpc, pending, taken,
                   failed, outcome, threads, exit_signal, joinIdx, unwinding>>

\* src/region.rs RegionBuilder::with_node
with_node(n) ==
    /\ mpc = "setup"
    /\ rb.open
    /\ Free(n)
    /\ rb' = [rb EXCEPT !.nodes = Append(@, n)]
    /\ UNCHANGED <<portVars, timeVars, stepVars, counter, regions, infra, reg, err, mpc, pending, taken,
                   failed, outcome, threads, exit_signal, joinIdx, unwinding>>

\* src/region.rs RegionBuilder::build: Err(NoNodes) on an empty region, and
\* self (the builder, with the regions it holds) is dropped with the call;
\* otherwise the region is pushed and the builder handed back.
build ==
    /\ mpc = "setup"
    /\ rb.open
    /\ rb' = NoRegion
    /\ IF rb.nodes = <<>>
       THEN /\ err' = "NoNodes"
            /\ infra' = "dropped"
            /\ regions' = <<>>
            /\ chan' = drop_nodes(chan, NodesIn(regions))
            /\ inAlive' = alive_after(NodesIn(regions))
       ELSE /\ err' = "none"
            /\ infra' = "held"
            /\ regions' = Append(regions, rb.nodes)
            /\ UNCHANGED <<chan, inAlive>>
    /\ UNCHANGED <<tx, rx, kind, timeVars, stepVars, fired, owed, last, counter, reg, mpc, pending, taken,
                   failed, outcome, threads, exit_signal, joinIdx, unwinding>>

InfraIdle ==
    /\ counter = 0
    /\ regions = <<>>
    /\ infra = "held"
    /\ reg = NoRegion
    /\ rb = NoRegion
    /\ err = "none"
    /\ mpc = "setup"
    /\ pending = <<>>
    /\ taken = 0
    /\ failed = 0
    /\ outcome = "none"
    /\ threads = <<>>
    /\ exit_signal = FALSE
    /\ joinIdx = 0
    /\ unwinding = FALSE
    /\ period = TestPeriod
    /\ work = 0

\* ------------------------------------------------------------------ start
\* A freshly spawned region thread: at the top of its loop.
\* elapsed and slept are history: the node work and the sleep of its last cycle.
thread(ns) ==
    [nodes |-> ns, pc |-> "check", i |-> 0, cycles |-> 0, log |-> <<>>,
     elapsed |-> 0, slept |-> 0]

\* Infrastructure::run, up to its loop: the regions are taken, the handle is
\* made with no threads and a clear exit_signal.  With no region the loop body
\* never runs and the handle is returned at once.
run ==
    /\ mpc = "setup"
    /\ infra = "held"
    /\ infra' = "run"
    /\ pending' = regions
    /\ regions' = <<>>
    /\ taken' = Len(regions)
    /\ threads' = <<>>
    /\ exit_signal' = FALSE
    /\ IF regions = <<>>
       THEN mpc' = "running" /\ outcome' = "handle"
       ELSE mpc' = "spawning" /\ outcome' = "none"
    /\ UNCHANGED <<portVars, timeVars, stepVars, counter, reg, rb, err, failed, joinIdx, unwinding>>

\* One turn of run's loop where Builder::spawn returns Ok: the handle is pushed;
\* after the last region, ret is returned.
spawn_ok ==
    /\ mpc = "spawning"
    /\ threads' = Append(threads, thread(Head(pending)))
    /\ pending' = Tail(pending)
    /\ IF Tail(pending) = <<>>
       THEN mpc' = "running" /\ outcome' = "handle"
       ELSE UNCHANGED <<mpc, outcome>>
    /\ UNCHANGED <<portVars, timeVars, stepVars, counter, regions, infra, reg, rb, err, taken, failed,
                   exit_signal, joinIdx, unwinding>>

\* One turn of run's loop where Builder::spawn returns Err: expect panics.  The
\* closure with its region and the regions not yet reached are dropped by the
\* unwinding, and ret is dropped next (RunningInfrastructure::drop runs).
spawn_err ==
    /\ mpc = "spawning"
    /\ failed' = failed + 1
    /\ outcome' = "panic"
    /\ mpc' = "run_panicked"
    /\ pending' = <<>>
    /\ chan' = drop_nodes(chan, NodesIn(pending))
    /\ inAlive' = alive_after(NodesIn(pending))
    /\ UNCHANGED <<tx, rx, kind, timeVars, stepVars, fired, owed, last, counter, regions, infra, reg, rb,
                   err, taken, threads, exit_signal, joinIdx, unwinding>>

\* ------------------------------------------------------------ region thread
Running == mpc # "aborted"

\* Top of the loop: if exit.load() { return }, which drops the region; else the
\* cycle starts with the first node (straight to the sleep when there is none).
thread_check(k) ==
    /\ Running
    /\ threads[k].pc = "check"
    /\ IF exit_signal
       THEN /\ threads' = [threads EXCEPT ![k].pc = "exited"]
            /\ chan' = drop_nodes(chan, threads[k].nodes)
            /\ inAlive' = alive_after(threads[k].nodes)
       ELSE /\ threads[k].cycles < MaxCycles
            /\ threads' = [threads EXCEPT
                  ![k].pc = IF threads[k].nodes = <<>> THEN "sleep" ELSE "tick",
                  ![k].i = 1,
                  ![k].log = <<>>]
            /\ UNCHANGED <<chan, inAlive>>
    /\ UNCHANGED <<tx, rx, kind, timeVars, stepVars, fired, owed, last, counter, regions, infra, reg, rb,
                   err, mpc, pending, taken, failed, outcome, exit_signal, joinIdx, unwinding>>

\* A loop over the nodes that stops after the first one.
first_node_only(t) == "sleep"

\* for node in &mut region.nodes: after a node, the next one; after the last,
\* the sleep.
next_node(t) == IF t.i < Len(t.nodes) THEN "tick" ELSE "sleep"

\* node.tick() of the node the loop is at; a panic unwinds the thread and drops
\* its region.
thread_tick(k) ==
    /\ Running
    /\ threads[k].pc = "tick"
    /\ LET n == threads[k].nodes[threads[k].i]
           r == tick(n, chan) IN
        /\ counter' = IF n = "counter" THEN counter + 1 ELSE counter
        /\ threads' = [threads EXCEPT
              ![k].pc = IF r.panic THEN "panicked" ELSE "input",
              ![k].log = Append(@, <<"tick", n>>)]
        /\ chan' = IF r.panic THEN drop_nodes(r.chan, threads[k].nodes) ELSE r.chan
        /\ inAlive' = IF r.panic THEN alive_after(threads[k].nodes) ELSE inAlive
    /\ UNCHANGED <<tx, rx, kind, timeVars, stepVars, fired, owed, last, regions, infra, reg, rb,
                   err, mpc, pending, taken, failed, outcome, exit_signal, joinIdx, unwinding>>

\* node.process_input() of the same node, then the next node or the sleep.
thread_input(k) ==
    /\ Running
    /\ threads[k].pc = "input"
    /\ LET n == threads[k].nodes[threads[k].i]
           r == process_input(n, chan) IN
        /\ threads' = [threads EXCEPT
              ![k].pc = IF r.panic THEN "panicked"
                        ELSE next_node(threads[k]),
              ![k].i = IF r.panic THEN @ ELSE @ + 1,
              ![k].log = Append(@, <<"process_input", n>>)]
        /\ chan' = IF r.panic THEN drop_nodes(r.chan, threads[k].nodes) ELSE r.chan
        /\ inAlive' = IF r.panic THEN alive_after(threads[k].nodes) ELSE inAlive
    /\ UNCHANGED <<tx, rx, kind, timeVars, stepVars, fired, owed, last, counter, regions, infra, reg, rb,
                   err, mpc, pending, taken, failed, outcome, exit_signal, joinIdx, unwinding>>

\* The Duration the loop sleeps for after node work of elapsed:
\* std::thread::sleep(region.tick), whatever the work took.
sleep_for(region_tick, elapsed) == region_tick

\* std::thread::sleep(region.tick), then back to the top of the loop.
thread_sleep(k) ==
    /\ Running
    /\ threads[k].pc = "sleep"
    /\ threads' = [threads EXCEPT
          ![k].pc = "check",
          ![k].cycles = @ + 1,
          ![k].elapsed = work,
          ![k].slept = sleep_for(period, work)]
    /\ UNCHANGED <<portVars, timeVars, stepVars, counter, regions, infra, reg, rb, err, mpc, pending,
                   taken, failed, outcome, exit_signal, joinIdx, unwinding>>

\* --------------------------------------------------------------- shutdown
\* Where drop leaves its thread once the join loop is over.
Joined(j) ==
    IF j <= Len(threads) THEN "joining"
    ELSE IF mpc = "run_panicked" \/ unwinding THEN "unwound"
    ELSE "done"

\* RunningInfrastructure::drop, up to its loop: the handle goes out of scope
\* (in the caller, or in run while its panic unwinds); exit_signal is set.
drop ==
    /\ mpc \in {"running", "run_panicked"}
    /\ exit_signal' = TRUE
    /\ unwinding' = (mpc = "run_panicked")
    /\ joinIdx' = 1
    /\ mpc' = Joined(1)
    /\ UNCHANGED <<portVars, timeVars, stepVars, counter, regions, infra, reg, rb, err, pending, taken,
                   failed, outcome, threads>>

\* A join that does not wait for its thread.
join_at_once(t) == TRUE

\* JoinHandle::join blocks until the thread has ended, by return or by panic.
ended(t) == t.pc \in {"exited", "panicked"}

\* One turn of drop's loop: thr.join() returns once the thread has ended, Ok
\* when it returned and Err when it panicked; expect panics on Err.  That panic
\* drops the handles not yet joined (their threads are detached); when drop
\* already runs in an unwinding, it aborts the process.
join ==
    /\ mpc = "joining"
    /\ ended(threads[joinIdx])
    /\ IF threads[joinIdx].pc = "panicked"
       THEN /\ joinIdx' = joinIdx
            /\ mpc' = IF unwinding THEN "aborted" ELSE "drop_panicked"
       ELSE /\ joinIdx' = joinIdx + 1
            /\ mpc' = Joined(joinIdx + 1)
    /\ UNCHANGED <<portVars, timeVars, stepVars, counter, regions, infra, reg, rb, err, pending, taken,
                   failed, outcome, threads, exit_signal, unwinding>>

\* ---------------------------------------------------------- specifications
\* The wiring of the test single_region of src/lib.rs (and of main of
\* examples/multi_region.rs): counter -> processing -> output, on the Input
\* of src/lib.rs.
Wired ==
    /\ chan = <<channel("out_measurements", "in_measurements"),
                channel("out_velocity", "in_velocity")>>
    /\ tx = [o \in Outputs |-> IF o = "out_measurements" THEN <<1>> ELSE <<2>>]
    /\ rx = [i \in Inputs |-> IF i = "in_measurements" THEN <<1>> ELSE <<2>>]
    /\ kind = [i \in Inputs |-> "lib"]
    /\ inAlive = [i \in Inputs |-> TRUE]
    /\ fired = <<>>
    /\ owed = [i \in Inputs |-> <<>>]
    /\ last = NoOp

\* No port operation in progress, every Output alive.
StepIdle ==
    /\ fx = NoFetch
    /\ px = NoFire
    /\ outAlive = [o \in Outputs |-> TRUE]
    /\ sent = [c \in DOMAIN chan |-> <<>>]
    /\ got = [c \in DOMAIN chan |-> <<>>]

Init == Wired /\ InfraIdle /\ StepIdle

Next ==
    \/ Region_new
    \/ \E n \in Nodes : add_node(n)
    \/ add_region
    \/ with_region
    \/ \E n \in Nodes : with_node(n)
    \/ build
    \/ run
    \/ spawn_ok
    \/ spawn_err
    \/ \E k \in DOMAIN threads : thread_check(k)
    \/ \E k \in DOMAIN threads : thread_tick(k)
    \/ \E k \in DOMAIN threads : thread_input(k)
    \/ \E k \in DOMAIN threads : thread_sleep(k)
    \/ drop
    \/ join

Spec == Init /\ [][Next]_vars

\* The ports alone, driven by the constructing thread before any region exists.
PortInit ==
    /\ tx = [o \in Outputs |-> <<>>]
    /\ rx = [i \in Inputs |-> <<>>]
    /\ chan = <<>>
    /\ kind \in [Inputs -> {"lib", "ports"}]
    /\ inAlive = [i \in Inputs |-> TRUE]
    /\ fired = <<>>
    /\ owed = [i \in Inputs |-> <<>>]
    /\ last = NoOp
    /\ InfraIdle
    /\ StepIdle

PortNext ==
    \/ \E o \in Outputs, i \in Inputs : connect(o, i)
    \/ \E o \in Outputs : Fire(o)
    \/ \E i \in Inputs : Fetch(i)
    \/ \E i \in Inputs : DropInput(i)

PortSpec == PortInit /\ [][PortNext]_vars

\* One running region, as the test single_region of src/lib.rs has it after
\* run: the three nodes in one region on one thread, for any tick period and
\* any duration of the node work.
TimeInit ==
    /\ Wired
    /\ counter = 0
    /\ regions = <<>>
    /\ infra = "run"
    /\ reg = NoRegion
    /\ rb = NoRegion
    /\ err = "none"
    /\ mpc = "running"
    /\ pending = <<>>
    /\ taken = 1
    /\ failed = 0
    /\ outcome = "handle"
    /\ threads = <<thread(<<"counter", "processing", "output">>)>>
    /\ exit_signal = FALSE
    /\ joinIdx = 0
    /\ unwinding = FALSE
    /\ period \in Periods
    /\ work \in Works
    /\ StepIdle

TimeNext ==
    \/ \E k \in DOMAIN threads : thread_check(k)
    \/ \E k \in DOMAIN threads : thread_tick(k)
    \/ \E k \in DOMAIN threads : thread_input(k)
    \/ \E k \in DOMAIN threads : thread_sleep(k)
    \/ drop
    \/ join

TimeSpec == TimeInit /\ [][TimeNext]_vars

\* ------------------------------------------- ports, statement by statement
\* A firing thread and a fetching thread on ports wired before they started:
\* every send and every try_recv is a step of its own.
MaxQueue == 1       \* values queued on one transport by a thread that fires on

\* The value of a fire that is kept out of the histories.
Untagged == 0

\* ret is recorded up to RetMax values.
RetMax == MaxFires * MaxConn

\* ret.push(data)
ret_push(ret, data) == IF Len(ret) < RetMax THEN Append(ret, data) ELSE ret

\* The channels whose sender / receiver a port holds, in connection order.
Senders(ch, o) == SelectSeq([c \in DOMAIN ch |-> c], LAMBDA c : ch[c].snd = o)
Receivers(ch, i) == SelectSeq([c \in DOMAIN ch |-> c], LAMBDA c : ch[c].rcv = i)

\* The fetch in progress learns of a value queued for its Input.
fed_by(f, cs) ==
    IF f.on /\ \E k \in DOMAIN cs : chan[cs[k]].rcv = f.port
    THEN [f EXCEPT !.fed = TRUE] ELSE f

\* A loop that never leaves its receiver.
next_rx_stuck(kd, k, ok) == k

\* The receiver the loop of fetch reads next: src/ports.rs stays on a receiver
\* until its try_recv gives Err, src/lib.rs moves on after every try_recv.
next_rx(kd, k, ok) == IF kd = "ports" /\ ok THEN k ELSE k + 1

\* Input::fetch is entered: let mut ret = Vec::new().
fetch_begin(i) ==
    /\ ~fx.on
    /\ inAlive[i]
    /\ fx' = [on |-> TRUE, port |-> i, k |-> 1, ret |-> <<>>,
              mark |-> [c \in Range(rx[i]) |-> Len(sent[c])],
              fed |-> \E c \in Range(rx[i]) : chan[c].q # <<>>]
    /\ UNCHANGED <<portVars, infraVars, timeVars, px, outAlive, sent, got>>

\* One try_recv of the loop of fetch.
fetch_recv ==
    /\ fx.on
    /\ fx.k <= Len(rx[fx.port])
    /\ LET c == rx[fx.port][fx.k]
           r == try_recv(chan, c) IN
        /\ chan' = r.chan
        /\ fx' = [fx EXCEPT !.k = next_rx(kind[fx.port], fx.k, r.ok),
                            !.ret = IF r.ok THEN ret_push(@, r.data) ELSE @]
        /\ got' = IF r.ok /\ r.data # Untagged
                  THEN [got EXCEPT ![c] = Append(@, r.data)] ELSE got
    /\ UNCHANGED <<tx, rx, kind, inAlive, fired, owed, last, infraVars, timeVars,
                   px, outAlive, sent>>

\* The loop over the receivers is over: fetch returns the ret it has.
fetch_return ==
    /\ fx.on
    /\ fx.k > Len(rx[fx.port])
    /\ fx' = NoFetch
    /\ UNCHANGED <<portVars, infraVars, timeVars, px, outAlive, sent, got>>

\* Output::fire is entered with the next fresh value; with no sender its loop
\* is over at once.
fire_begin(o) ==
    /\ ~px.on
    /\ ~px.panicked
    /\ outAlive[o]
    /\ Len(fired) < MaxFires
    /\ fired' = Append(fired, o)
    /\ px' = IF tx[o] = <<>> THEN NoFire
             ELSE [on |-> TRUE, port |-> o, k |-> 1, val |-> Len(fired) + 1,
                   panicked |-> FALSE]
    /\ UNCHANGED <<tx, rx, chan, kind, inAlive, owed, last, infraVars, timeVars,
                   fx, outAlive, sent, got>>

\* One send of the loop of fire; expect panics on Err and the thread unwinds.
fire_send ==
    /\ px.on
    /\ LET c == tx[px.port][px.k]
           r == send(chan, c, px.val) IN
        /\ chan' = r.chan
        /\ IF r.ok
           THEN /\ sent' = [sent EXCEPT ![c] = Append(@, px.val)]
                /\ px' = IF px.k < Len(tx[px.port]) THEN [px EXCEPT !.k = @ + 1]
                         ELSE NoFire
                /\ fx' = fed_by(fx, <<c>>)
           ELSE /\ px' = [NoFire EXCEPT !.panicked = TRUE]
                /\ UNCHANGED <<sent, fx>>
    /\ UNCHANGED <<tx, rx, kind, inAlive, fired, owed, last, infraVars, timeVars,
                   outAlive, got>>

\* The firing thread fires on, cycle after cycle: one more fire of a value the
\* histories do not follow.
keep_firing(o) ==
    /\ ~px.on
    /\ ~px.panicked
    /\ outAlive[o]
    /\ tx[o] # <<>>
    /\ \A k \in DOMAIN tx[o] : Len(chan[tx[o][k]].q) < MaxQueue
    /\ LET r == fire(tx[o], chan, Untagged) IN
        /\ chan' = r.chan
        /\ px' = IF r.panic THEN [NoFire EXCEPT !.panicked = TRUE] ELSE px
    /\ fx' = fed_by(fx, tx[o])
    /\ UNCHANGED <<tx, rx, kind, inAlive, fired, owed, last, infraVars, timeVars,
                   outAlive, sent, got>>

\* The node that owns Output o is dropped when its thread has ended: the
\* senders go, what they sent stays queued.
drop_output(o) ==
    /\ outAlive[o]
    /\ ~(px.on /\ px.port = o)
    /\ outAlive' = [outAlive EXCEPT ![o] = FALSE]
    /\ UNCHANGED <<portVars, infraVars, timeVars, fx, px, sent, got>>

\* Any wiring that at most MaxConn calls of connect leave, on Inputs of
\* either kind.
WiredAnyhow ==
    /\ \E n \in 0..MaxConn : \E w \in [1..n -> Outputs \X Inputs] :
          chan = [c \in 1..n |-> channel(w[c][1], w[c][2])]
    /\ tx = [o \in Outputs |-> Senders(chan, o)]
    /\ rx = [i \in Inputs |-> Receivers(chan, i)]
    /\ kind \in [Inputs -> {"lib", "ports"}]
    /\ \A c, d \in DOMAIN chan : chan[c].snd = chan[d].snd => kind[chan[c].rcv] = kind[chan[d].rcv]
    /\ inAlive = [i \in Inputs |-> TRUE]
    /\ fired = <<>>
    /\ owed = [i \in Inputs |-> <<>>]
    /\ last = NoOp

RaceInit == WiredAnyhow /\ InfraIdle /\ StepIdle

RaceNext ==
    \/ \E o \in Outputs : fire_begin(o)
    \/ fire_send
    \/ \E i \in Inputs : fetch_begin(i)
    \/ fetch_recv
    \/ fetch_return
    \/ \E o \in Outputs : drop_output(o)

RaceSpec == RaceInit /\ [][RaceNext]_vars

\* The same fetching thread beside a thread that fires without end.
DrainNext ==
    \/ \E o \in Outputs : keep_firing(o)
    \/ \E i \in Inputs : fetch_begin(i)
    \/ fetch_recv
    \/ fetch_return
    \/ \E o \in Outputs : drop_output(o)

\* The fetching thread is scheduled: a fetch that can take its next step
\* takes it.
FairDrainSpec ==
    RaceInit /\ [][DrainNext]_vars /\ WF_vars(fetch_recv) /\ WF_vars(fetch_return)

\* ------------------------------------------------------------------ claims
Count(s, v) == Cardinality({k \in DOMAIN s : s[k] = v})

\* Everything queued on the channels cs, channel after channel.
RECURSIVE AllQueued(_, _)
AllQueued(cs, ch) ==
    IF cs = <<>> THEN <<>> ELSE ch[Head(cs)].q \o AllQueued(Tail(cs), ch)

\* The step is a fetch of Input i / a fire on Output o.
FetchOf(i) == last'.op = "fetch" /\ last'.port = i
FireOf(o) == last'.op = "fire" /\ last'.port = o

AllAlive == \A i \in Inputs : inAlive[i]
FiredOnce(o) == Count(fired, o) = 1
Links(o, i) == Cardinality({c \in DOMAIN chan : chan[c].snd = o /\ chan[c].rcv = i})
From(s, o) == SelectSeq(s, LAMBDA v : fired[v] = o)

\* C1: in a cycle of a region thread the calls are tick then process_input on
\* each node, once, in registration order: the calls made so far in the cycle
\* are a prefix of that sequence, and a finished cycle has made all of them.
Expected(ns) ==
    [j \in 1..(2 * Len(ns)) |->
        IF j % 2 = 1 THEN <<"tick", ns[(j + 1) \div 2]>>
        ELSE <<"process_input", ns[j \div 2]>>]

C2_FetchDrains ==
    [][\A i \in Inputs : FetchOf(i) =>
          /\ last'.ret = AllQueued(rx[i], chan)
          /\ \A k \in DOMAIN rx[i] : chan'[rx[i][k]].q = <<>>]_vars

\* C3: a value fired once on an Output, all of whose peers are alive, is returned
\* exactly once by the next fetch of every Input connected to that Output.
C3_FanOut ==
    [][\A i \in Inputs : FetchOf(i) =>
          \A v \in Range(owed[i]) :
              (FiredOnce(fired[v]) /\ Links(fired[v], i) = 1) => Count(last'.ret, v) = 1]_vars

C3_Witness ==
    \E o \in Outputs :
        /\ fired = <<o>>
        /\ \A i \in Inputs : Links(o, i) = 1 /\ inAlive[i] /\ owed[i] = <<>>
        /\ \A c \in DOMAIN chan : chan[c].q = <<>>
        /\ last.op = "fetch" /\ last.ret = <<1>>

\* C4: with distinct Outputs connected to an Input and nothing destroyed, the next
\* fetch returns exactly the values fired to it since its last fetch, those of any
\* one Output in the order that Output fired them.
C4_FanIn ==
    [][\A i \in Inputs :
          (FetchOf(i) /\ AllAlive /\ \A o \in Outputs : Links(o, i) <= 1) =>
              /\ Len(last'.ret) = Len(owed[i])
              /\ \A o \in Outputs : From(last'.ret, o) = From(owed[i], o)]_vars

\* C5: when the drop of the handle has returned, exit_signal is set and every
\* spawned thread has ended and has been joined.
C5_DropJoinsAll ==
    mpc \in {"done", "unwound"} =>
        /\ exit_signal
        /\ joinIdx = Len(threads) + 1
        /\ \A k \in DOMAIN threads : threads[k].pc = "exited"

C5_Witness ==
    /\ mpc = "done"
    /\ Len(threads) = 2
    /\ \E k \in DOMAIN threads : threads[k].cycles >= 1

\* C6: once the drop of a handle that run returned has started, shutdown runs to
\* its end: when nothing is left to do, the drop has returned and every region
\* thread has left its loop through the exit_signal check.
DropStarted == mpc \in {"joining", "done", "drop_panicked"}

C6_ShutdownLive ==
    (outcome = "handle" /\ DropStarted /\ ~ENABLED Next) =>
        /\ mpc = "done"
        /\ \A k \in DOMAIN threads : threads[k].pc = "exited"

\* C7: run on an infrastructure without regions gives its caller the "no
\* regions" error: no handle, no thread.
C7_NoRegionsRejected ==
    (infra = "run" /\ taken = 0) =>
        /\ err = "NoRegions"
        /\ outcome # "handle"
        /\ threads = <<>>

\* C8: every region a thread is spawned for has at least one node.
C8_NoEmptyRegionRuns ==
    \A k \in DOMAIN threads : threads[k].nodes # <<>>

\* C9: a fire that meets a destroyed peer does not panic, and the value is
\* enqueued on every transport of the Output whose peer is alive.
C9_DeadPeerIsolated ==
    [][\A o \in Outputs : FireOf(o) =>
          /\ ~last'.panic
          /\ \A k \in DOMAIN tx[o] :
                chan[tx[o][k]].rxAlive =>
                    chan'[tx[o][k]].q = Append(chan[tx[o][k]].q, last'.val)]_vars

\* C10: after a failed spawn, run has not panicked, exit_signal is clear while
\* run goes on, and every other region taken gets its thread.
C10_SpawnFailureReported ==
    failed > 0 =>
        /\ outcome # "panic"
        /\ mpc \in {"spawning", "running"} => ~exit_signal
        /\ mpc = "running" => Len(threads) = taken - failed

\* C11: a join that finds its thread ended by a panic is only reported: the loop
\* of drop moves on to the next handle, and drop ends as after a clean join.
C11_JoinFailureReported ==
    [][(/\ mpc = "joining"
        /\ threads[joinIdx].pc = "panicked"
        /\ <<mpc, joinIdx>>' # <<mpc, joinIdx>>) =>
          /\ joinIdx' = joinIdx + 1
          /\ mpc' \in {"joining", "done", "unwound"}]_vars

\* C14: a build that fails with NoNodes leaves the infrastructure builder with
\* its caller, holding the regions it held before the call.
C14_BuildFailureKeepsBuilder ==
    [][(rb.open /\ rb.nodes = <<>> /\ ~rb'.open) =>
          /\ err' = "NoNodes"
          /\ infra' = "held"
          /\ regions' = regions]_vars

\* C17: a region thread ends only at the exit_signal check at the top of its
\* loop, so that when it has ended every call of a cycle has been made as often
\* as every other: tick and process_input, on every node of the region.
Calls(t, c, n) ==
    t.cycles + (IF t.pc \in {"check", "exited"} THEN 0 ELSE Count(t.log, <<c, n>>))

C17_CooperativeExit ==
    \A k \in DOMAIN threads :
        LET t == threads[k] IN
        ended(t) =>
            /\ t.pc = "exited"
            /\ \A n, m \in Range(t.nodes) :
                  /\ Calls(t, "tick", n) = Calls(t, "process_input", n)
                  /\ Calls(t, "tick", n) = Calls(t, "tick", m)

\* C20: once the handle that run returned is being dropped, no region thread
\* panics and the drop does not panic: it returns to its caller.
C20_ShutdownNeverCrashes ==
    (outcome = "handle" /\ exit_signal) =>
        /\ \A k \in DOMAIN threads : threads[k].pc # "panicked"
        /\ mpc \notin {"drop_panicked", "aborted"}

\* C18: a connect adds one transport, empty, at the end of the senders of its
\* Output and of the receivers of one Input, and changes nothing else; one fire
\* puts its value once on every transport, so twice on an Input connected twice.
ConnectOf(o) == last'.op = "connect" /\ last'.port = o

C18_ConnectAddsOne ==
    [][\A o \in Outputs :
          /\ ConnectOf(o) =>
                /\ Len(chan') = Len(chan) + 1
                /\ \A c \in DOMAIN chan : chan'[c] = chan[c]
                /\ chan'[Len(chan')].q = <<>>
                /\ chan'[Len(chan')].snd = o
                /\ tx'[o] = tx[o] \o <<Len(chan')>>
                /\ \A p \in Outputs \ {o} : tx'[p] = tx[p]
                /\ \E i \in Inputs :
                      /\ chan'[Len(chan')].rcv = i
                      /\ rx'[i] = rx[i] \o <<Len(chan')>>
                      /\ \A j \in Inputs \ {i} : rx'[j] = rx[j]
          /\ (FireOf(o) /\ ~last'.panic) =>
                \A i \in Inputs :
                    Count(AllQueued(rx[i], chan'), last'.val) = Links(o, i)]_vars

C18_Witness ==
    \E o \in Outputs, i \in Inputs :
        /\ Links(o, i) = 2
        /\ last.op = "fire" /\ last.port = o /\ ~last.panic
        /\ Count(AllQueued(rx[i], chan), last.val) = 2

\* C13: SensorInterface fires its counter, which counts the ticks it has had,
\* so the value v is the one fired in cycle v of the region of "counter".
\* ProcessingFetches(k) is the step in which thread k runs process_input of
\* "processing", and Fetched is what the fetch in it returns.
Pos(ns, n) == CHOOSE j \in DOMAIN ns : ns[j] = n

ProcessingFetches(k) ==
    /\ threads[k].pc = "input"
    /\ threads[k].nodes[threads[k].i] = "processing"
    /\ threads'[k] # threads[k]
    /\ "counter" \in Range(threads[k].nodes)

Fetched == Input_fetch("in_measurements", chan).ret

\* C13 as stated: no fetch of cycle k of a region returns a value fired in
\* cycle k of that region.
C13_NextCycleOnly ==
    [][\A k \in DOMAIN threads :
          ProcessingFetches(k) => \A d \in Range(Fetched) : d < threads[k].cycles]_vars

\* C13 as the code has it: a fetch that runs after the fire in the loop order
\* (a node registered later) returns the value in the same cycle; a fetch that
\* runs before it (a node registered earlier) returns it in the next cycle.
C13_VisibleByOrder ==
    [][\A k \in DOMAIN threads :
          LET t == threads[k] IN
          /\ (t.pc = "tick" /\ t.nodes[t.i] = "counter") => counter = t.cycles
          /\ ProcessingFetches(k) =>
                IF Pos(t.nodes, "counter") < Pos(t.nodes, "processing")
                THEN Fetched = <<t.cycles>>
                ELSE Fetched = IF t.cycles = 0 THEN <<>> ELSE <<t.cycles - 1>>]_vars

C13_Witness ==
    \E k \in DOMAIN threads :
        LET t == threads[k] IN
        /\ {"counter", "processing"} \subseteq Range(t.nodes)
        /\ Pos(t.nodes, "processing") < Pos(t.nodes, "counter")
        /\ t.cycles = 1
        /\ t.pc = "sleep"

\* C12: after a cycle whose node work took longer than the tick period the
\* thread does not sleep: the next cycle starts at once.
C12_NoSleepAfterOverrun ==
    \A k \in DOMAIN threads :
        LET t == threads[k] IN
        (t.cycles > 0 /\ t.elapsed > period) =>
            /\ t.slept = 0
            /\ t.pc # "panicked"

\* C16: after a cycle whose node work took no longer than the tick period the
\* thread sleeps for the rest of the period, so that the cycle and its sleep
\* together last one period.
C16_NoDrift ==
    \A k \in DOMAIN threads :
        LET t == threads[k] IN
        (t.cycles > 0 /\ t.elapsed <= period) =>
            /\ t.slept = period - t.elapsed
            /\ t.elapsed + t.slept = period

\* C15 as stated: every fetch returns, whatever the firing thread does.
C15_FetchAlwaysReturns == fx.on ~> ~fx.on

\* C15 as the code has it: a fetch returns once the Outputs connected to its
\* Input fire no more, and the one-try_recv fetch of src/lib.rs returns in any
\* case; a fetch that nothing was queued for returns the empty sequence.
Silent(i) == \A c \in Range(rx[i]) : ~outAlive[chan[c].snd]

C15_FetchReturns ==
    /\ [][(fx.on /\ ~fx'.on /\ ~fx.fed) => fx.ret = <<>>]_vars
    /\ \A i \in Inputs :
          (fx.on /\ fx.port = i /\ (kind[i] = "lib" \/ Silent(i))) ~> ~fx.on

C15_Witness ==
    /\ fx.on
    /\ fx.k > Len(rx[fx.port])
    /\ kind[fx.port] = "ports"
    /\ rx[fx.port] # <<>>
    /\ Silent(fx.port)
    /\ Len(fx.ret) >= 2

\* C19: on every connection the values received so far are a prefix of the
\* values sent, and a fetch that returns has received from each transport of
\* its Input every value sent on it before the fetch began.
C19_ReturnedIsPrefix ==
    [][/\ \A c \in DOMAIN chan :
             /\ Len(got'[c]) <= Len(sent'[c])
             /\ got'[c] = SubSeq(sent'[c], 1, Len(got'[c]))
       /\ (fx.on /\ ~fx'.on) =>
             \A c \in Range(rx[fx.port]) : Len(got[c]) >= fx.mark[c]]_vars

====
